---- MODULE Spec2Model ----
(***************************************************************************)
(* o5m-stream: the streaming o5m decoder of src/src/lib.rs (Decoder,       *)
(* next_item, flush, decode) and src/src/parse.rs (info, tags, signed,     *)
(* unsigned), over the records of src/src/data.rs.                         *)
(*                                                                         *)
(* Bytes are naturals 0..255.  A 64-bit integer (u64, i64, usize) is a     *)
(* word: four 16-bit limbs, least significant first, i.e. the bit pattern  *)
(* of the Rust value; an i64 is the two's complement reading of the same   *)
(* limbs.  Rust checks arithmetic and shift overflow only in builds with   *)
(* overflow checks (the debug profile); the release profile wraps.  The    *)
(* build is the variable overflow_checks, fixed at Init.                   *)
(***************************************************************************)
EXTENDS Integers, Sequences, FiniteSets, TLC

VARIABLES
  overflow_checks, \* the build: TRUE = overflow checks on (debug), FALSE = wrapping (release)
  reader,          \* Decoder.reader: the bytes the source has not delivered yet
  read_errors,     \* how many more times the source may fail a read
  buffer,          \* Decoder.buffer[0..buffer_len): the bytes of the last read
  index,           \* Decoder.index
  buffer_len,      \* Decoder.buffer_len
  state,           \* Decoder.state
  data_type,       \* Decoder.data_type
  len,             \* Decoder.len
  npow,            \* Decoder.npow
  chunk,           \* Decoder.chunk
  size,            \* Decoder.size
  strings,         \* Decoder.strings, front (most recent) first
  prev,            \* Decoder.prev
  out,             \* the items the stream of decode() has yielded so far
  ended,           \* the stream of decode(): "no" | "end" (yielded None) | "panic"
  log,             \* history: every reset marker and every record, oldest first
  prefix,          \* history: the length-prefix bytes read since the last type byte
  input,           \* the whole byte stream of the source (never changes)
  probe            \* the last application of a parser to a slice (parser specifications)

vars == <<overflow_checks, reader, read_errors, buffer, index, buffer_len, state,
          data_type, len, npow, chunk, size, strings, prev, out, ended, log, prefix,
          input, probe>>

(***************************************************************************)
(* 64-bit words                                                            *)
(***************************************************************************)
\* 2^k for the small k the limb arithmetic needs.
RECURSIVE Pow2(_)
Pow2(k) == IF k = 0 THEN 1 ELSE 2 * Pow2(k - 1)

Limb == Pow2(16)

W0 == <<0, 0, 0, 0>>
W1 == <<1, 0, 0, 0>>
WMin == <<0, 0, 0, 32768>>       \* i64::MIN
WMaxI == <<65535, 65535, 65535, 32767>>  \* i64::MAX
WAll == <<65535, 65535, 65535, 65535>>   \* u64::MAX, and -1 as i64

\* A natural below 2^31 as a word.
WNat(n) == <<n % Limb, (n \div Limb) % Limb, 0, 0>>

WNot(a) == [k \in 1..4 |-> 65535 - a[k]]

\* a + b modulo 2^64, with the carry out of bit 63.
WAddC(a, b) ==
  LET s1 == a[1] + b[1]
      s2 == a[2] + b[2] + (s1 \div Limb)
      s3 == a[3] + b[3] + (s2 \div Limb)
      s4 == a[4] + b[4] + (s3 \div Limb)
  IN  [w |-> <<s1 % Limb, s2 % Limb, s3 % Limb, s4 % Limb>>, carry |-> s4 \div Limb]

WAdd(a, b) == WAddC(a, b).w
WNeg(a) == WAdd(WNot(a), W1)
WSub(a, b) == WAdd(a, WNeg(b))

\* Readings of a word.
WIsNeg(a) == a[4] >= 32768          \* the sign bit of the i64 reading
WIsOdd(a) == a[1] % 2 = 1
WIsSmall(a) == a[3] = 0 /\ a[4] = 0 /\ a[2] < 16384
\* The value of a word below 2^30 (the callers test WIsSmall first).
WVal(a) == a[1] + Limb * a[2]
\* Unsigned a < b.
WLtU(a, b) ==
  \E k \in 1..4 : a[k] < b[k] /\ \A m \in (k+1)..4 : a[m] = b[m]

\* a * m modulo 2^64 for a factor m of at most 128, with what is carried out
\* of bit 63 (nonzero: the product overflows).
WMulSmall(a, m) ==
  LET p1 == a[1] * m
      p2 == a[2] * m + (p1 \div Limb)
      p3 == a[3] * m + (p2 \div Limb)
      p4 == a[4] * m + (p3 \div Limb)
  IN  [w |-> <<p1 % Limb, p2 % Limb, p3 % Limb, p4 % Limb>>, carry |-> p4 \div Limb]

\* Logical shifts by one bit.
WShr1(a) ==
  [k \in 1..4 |-> (a[k] \div 2) + (IF k < 4 THEN (a[k+1] % 2) * 32768 ELSE 0)]
WShl1(a) ==
  [k \in 1..4 |-> ((a[k] * 2) % Limb) + (IF k > 1 THEN a[k-1] \div 32768 ELSE 0)]

\* Signed (i64) overflow of a + b: equal signs in, another sign out.
WAddOverflowsI(a, b) ==
  WIsNeg(a) = WIsNeg(b) /\ WIsNeg(WAdd(a, b)) # WIsNeg(a)

\* i64 division by 2, truncating toward zero (Rust's `/`).
WDiv2I(a) ==
  LET asr == [WShr1(a) EXCEPT ![4] = @ + (IF WIsNeg(a) THEN 32768 ELSE 0)]
  IN  IF WIsNeg(a) /\ WIsOdd(a) THEN WAdd(asr, W1) ELSE asr

\* (b7 << sh) modulo 2^64 for a 7-bit b7 and 0 <= sh < 64: the bits shifted
\* past bit 63 are dropped, as Rust's `<<` drops them.
WShl7(b7, sh) ==
  [k \in 1..4 |->
     LET d == sh - 16 * (k - 1)
     IN  IF d >= 16 \/ d <= -7 THEN 0
         ELSE IF d >= 0 THEN (b7 * Pow2(d)) % Limb
         ELSE b7 \div Pow2(-d)]

\* Bits 7i .. 7i+6 of a word (i in 0..9).
WBits7(a, i) ==
  LET p == 7 * i
      k == (p \div 16) + 1
      off == p % 16
      lo == a[k] \div Pow2(off)
      hi == IF k < 4 THEN (a[k+1] % 128) * Pow2(16 - off) ELSE 0
  IN  (lo + hi) % 128

(***************************************************************************)
(* Results of the parsers: Ok((n, v)), Err(DecodeError), or a panic of the *)
(* thread (an overflow check, an index or slice out of bounds).            *)
(***************************************************************************)
\* Option<T>: None, or Some(x)[1] = x.
None == <<>>
Some(x) == <<x>>

Ok(n, v) == [tag |-> "Ok", n |-> n, v |-> v]
Err(e) == [tag |-> "Err", e |-> e]
Panic(why) == [tag |-> "Panic", why |-> why]

\* buf[from..] as Rust slices it, for 0 <= from <= Len(buf) (0-based from).
SliceFrom(buf, from) == SubSeq(buf, from + 1, Len(buf))

(***************************************************************************)
(* parse::unsigned and parse::signed                                       *)
(***************************************************************************)
\* The for loop of unsigned from the i-th byte (1-based) on.
RECURSIVE unsigned_loop(_, _, _, _)
unsigned_loop(buf, i, value, lshift) ==
  IF i > Len(buf)
  THEN Err([kind |-> "UnterminatedUnsignedInteger"])
  ELSE LET b == buf[i]
           \* `<<` by 64 or more: a panic with overflow checks, else the
           \* shift amount is masked to its low 6 bits
           term == WShl7(b % 128, lshift % 64)
           sum == WAddC(value, term)
       IN  IF overflow_checks /\ lshift >= 64
           THEN Panic("attempt to shift left with overflow")
           ELSE IF overflow_checks /\ sum.carry = 1
           THEN Panic("attempt to add with overflow")
           ELSE IF b < 128 THEN Ok(i, sum.w)
           ELSE unsigned_loop(buf, i + 1, sum.w, lshift + 7)

unsigned(buf) == unsigned_loop(buf, 1, W0, 0)

\* The zigzag step of signed, on the accumulated i64 `value`.
signed_finish(value) ==
  LET odd == WIsOdd(value)                      \* value % 2 is 0, or 1 / -1
      prod == IF odd THEN WNeg(value) ELSE value  \* value * sign
      half == WDiv2I(prod)                      \* / 2
  IN  IF odd THEN WSub(half, W1) ELSE half      \* if sign < 0 { value -= 1 }

RECURSIVE signed_loop(_, _, _, _)
signed_loop(buf, i, value, lshift) ==
  IF i > Len(buf)
  THEN Err([kind |-> "UnterminatedSignedInteger"])
  ELSE LET b == buf[i]
           term == WShl7(b % 128, lshift % 64)
           sum == WAdd(value, term)
       IN  IF overflow_checks /\ lshift >= 64
           THEN Panic("attempt to shift left with overflow")
           ELSE IF overflow_checks /\ WAddOverflowsI(value, term)
           THEN Panic("attempt to add with overflow")
           ELSE IF b < 128 THEN Ok(i, signed_finish(sum))
           ELSE signed_loop(buf, i + 1, sum, lshift + 7)

signed(buf) == signed_loop(buf, 1, W0, 0)

(***************************************************************************)
(* The encodings the decoders are the inverse of (spec 4.1): base-128      *)
(* little-endian groups with the continuation bit, and zigzag.             *)
(***************************************************************************)
RECURSIVE EncodeUnsignedFrom(_, _)
EncodeUnsignedFrom(w, i) ==
  IF \A j \in (i+1)..9 : WBits7(w, j) = 0
  THEN <<WBits7(w, i)>>
  ELSE <<WBits7(w, i) + 128>> \o EncodeUnsignedFrom(w, i + 1)

EncodeUnsigned(w) == EncodeUnsignedFrom(w, 0)

\* zigzag(v) = (v << 1) ^ (v >> 63)
Zigzag(v) == IF WIsNeg(v) THEN WNot(WShl1(v)) ELSE WShl1(v)

EncodeSigned(v) == EncodeUnsigned(Zigzag(v))

(***************************************************************************)
(* Helpers of the body parsers                                             *)
(***************************************************************************)
\* A parser that holds `&mut strings`: its result and the table it leaves.
With(r, strs) == [res |-> r, strings |-> strs]

\* `?` on a Result: the error (or the panic) ends the parser, which leaves the
\* table strs; otherwise the parser goes on with the value.
Try(r, strs, K(_)) == IF r.tag # "Ok" THEN With(r, strs) ELSE K(r)
\* The same on a parser that itself holds the table.
TryWith(rw, K(_)) == IF rw.res.tag # "Ok" THEN rw ELSE K(rw)

\* buf[offset..].iter().position(|p| *p == 0).unwrap_or(buf.len()-offset) + offset
NulPos(buf, offset) ==
  LET S == {i \in offset..(Len(buf) - 1) : buf[i + 1] = 0}
  IN  IF S = {} THEN Len(buf) ELSE CHOOSE i \in S : \A k \in S : i <= k

\* buf[from..to] (0-based, to exclusive)
Slice(buf, from, to) == SubSeq(buf, from + 1, to)

\* std::str::from_utf8 / String::from_utf8: whether the bytes are UTF-8.
\* The length of the sequence a lead byte opens (0: not a lead byte).
Utf8Len(b) ==
  CASE b < 128 -> 1
    [] b >= 194 /\ b <= 223 -> 2
    [] b >= 224 /\ b <= 239 -> 3
    [] b >= 240 /\ b <= 244 -> 4
    [] OTHER -> 0
IsCont(b) == b >= 128 /\ b <= 191
\* The range of the byte after a lead byte (no overlong forms, no surrogates,
\* nothing above U+10FFFF).
SecondLo(b) == CASE b = 224 -> 160 [] b = 240 -> 144 [] OTHER -> 128
SecondHi(b) == CASE b = 237 -> 159 [] b = 244 -> 143 [] OTHER -> 191
\* Every lead byte has its continuation bytes, and every continuation byte
\* belongs to a lead byte.
Utf8(s) ==
  \A i \in 1..Len(s) :
    IF IsCont(s[i])
    THEN \E j \in 1..3 : i - j >= 1 /\ Utf8Len(s[i - j]) > j
    ELSE /\ Utf8Len(s[i]) > 0
         /\ i + Utf8Len(s[i]) - 1 <= Len(s)
         /\ \A k \in 1..(Utf8Len(s[i]) - 1) : IsCont(s[i + k])
         /\ Utf8Len(s[i]) > 1 =>
              (s[i + 1] >= SecondLo(s[i]) /\ s[i + 1] <= SecondHi(s[i]))

StringEncodingError == Err([kind |-> "StringEncodingError"])
StringUnavailable(x) == Err([kind |-> "StringUnavailable", index |-> x])

\* strings_get with `get(x as usize)`.
strings_get_from_zero(strs, x) ==
  IF WIsSmall(x) /\ WVal(x) + 1 <= Len(strs) THEN Some(strs[WVal(x) + 1]) ELSE None

\* strings.get((x as usize) - 1) for x # 0: a one-element sequence, or None.
strings_get(strs, x) ==
  IF WIsSmall(x) /\ WVal(x) <= Len(strs) THEN Some(strs[WVal(x)]) ELSE None

\* An i64 `a + b`: a panic with overflow checks when it overflows.
AddPanics(a, b) == overflow_checks /\ WAddOverflowsI(a, b)
AddOverflow == Panic("attempt to add with overflow")

(***************************************************************************)
(* Dataset::get_id, Dataset::get_info, Info::new                           *)
(***************************************************************************)
IsElement(d) == d.type \in {"Node", "Way", "Relation"}
get_id(d) == IF IsElement(d) THEN Some(d.id) ELSE None
get_info(d) == IF IsElement(d) THEN d.info ELSE None

InfoNew ==
  [version |-> None, timestamp |-> None, changeset |-> None, uid |-> None, user |-> None]

(***************************************************************************)
(* parse::info                                                             *)
(***************************************************************************)
\* info_intern without `strings.pop_back()`.
info_intern_uncapped(strs, uid_bytes, user_bytes) ==
  IF Len(uid_bytes) + Len(user_bytes) <= 250
  THEN <<<<uid_bytes, user_bytes>>>> \o strs
  ELSE strs

\* The insertion of the inline author pair (parse.rs 62-65).
info_intern(strs, uid_bytes, user_bytes) ==
  IF Len(uid_bytes) + Len(user_bytes) <= 250
  THEN LET pushed == <<<<uid_bytes, user_bytes>>>> \o strs
       IN  IF Len(pushed) > 15000 THEN SubSeq(pushed, 1, Len(pushed) - 1) ELSE pushed
  ELSE strs

\* The inline author (parse.rs 41-66), at `offset` behind the zero selector.
info_inline(buf, offset, id, inf, strs) ==
  Try(unsigned(SliceFrom(buf, offset)), strs, LAMBDA r_uid :
  LET uid_bytes == Slice(buf, offset, offset + r_uid.n)
      o2 == offset + r_uid.n
      i == NulPos(buf, o2 + 1)
      user_bytes == Slice(buf, o2 + 1, i)
  IN  IF o2 >= Len(buf) THEN With(Panic("index out of bounds"), strs)
      ELSE IF buf[o2 + 1] # 0
      THEN With(Err([kind |-> "UnexpectedByte", expected |-> 0,
                     received |-> buf[o2 + 1]]), strs)
      ELSE IF ~Utf8(user_bytes) THEN With(StringEncodingError, strs)
      ELSE With(Ok(i + 1, <<id, Some([inf EXCEPT !.uid = Some(r_uid.v),
                                                !.user = Some(user_bytes)])>>),
                info_intern(strs, uid_bytes, user_bytes)))

\* The author by reference (parse.rs 68-79); `offset` is behind the selector x.
info_reference(offset, x, id, inf, strs) ==
  LET pair == strings_get(strs, x) IN
  IF pair = None THEN With(StringUnavailable(x), strs) ELSE
  Try(unsigned(pair[1][1]), strs, LAMBDA r_uid :
  IF ~Utf8(pair[1][2]) THEN With(StringEncodingError, strs)
  ELSE With(Ok(offset, <<id, Some([inf EXCEPT !.uid = Some(r_uid.v),
                                              !.user = Some(pair[1][2])])>>), strs))

\* The author block (parse.rs 37-81), entered at `offset` with id and info so far.
info_author(buf, offset, id, inf, strs) ==
  Try(unsigned(SliceFrom(buf, offset)), strs, LAMBDA r_sel :
  IF r_sel.v = W0
  THEN info_inline(buf, offset + r_sel.n, id, inf, strs)
  ELSE info_reference(offset + r_sel.n, r_sel.v, id, inf, strs))

info(buf, prev_id, prev_info, strs) ==
  Try(signed(SliceFrom(buf, 0)), strs, LAMBDA r_id :
  LET id_base == IF prev_id = None THEN W0 ELSE prev_id[1]
      id == WAdd(r_id.v, id_base)
  IN
  IF AddPanics(r_id.v, id_base) THEN With(AddOverflow, strs) ELSE
  Try(unsigned(SliceFrom(buf, r_id.n)), strs, LAMBDA r_ver :
  IF r_ver.v = W0 THEN With(Ok(r_id.n + r_ver.n, <<id, None>>), strs) ELSE
  Try(signed(SliceFrom(buf, r_id.n + r_ver.n)), strs, LAMBDA r_ts :
  LET ts_base == IF prev_info = None \/ prev_info[1].timestamp = None
                 THEN W0 ELSE prev_info[1].timestamp[1]
      o3 == r_id.n + r_ver.n + r_ts.n
      inf1 == [InfoNew EXCEPT !.version = Some(r_ver.v)]
  IN
  IF AddPanics(r_ts.v, ts_base) THEN With(AddOverflow, strs) ELSE
  IF WAdd(r_ts.v, ts_base) = W0 THEN With(Ok(o3, <<id, Some(inf1)>>), strs) ELSE
  Try(signed(SliceFrom(buf, o3)), strs, LAMBDA r_cs :
  LET cs_base == IF prev_info = None \/ prev_info[1].changeset = None
                 THEN W0 ELSE prev_info[1].changeset[1]
  IN
  IF AddPanics(r_cs.v, cs_base) THEN With(AddOverflow, strs)
  ELSE info_author(buf, o3 + r_cs.n, id,
                   [inf1 EXCEPT !.timestamp = Some(WAdd(r_ts.v, ts_base)),
                                !.changeset = Some(WAdd(r_cs.v, cs_base))], strs)))))

(***************************************************************************)
(* parse::tags                                                             *)
(***************************************************************************)
SliceOutOfRange == Panic("slice start index out of range")

EmptyTags == [k \in {} |-> <<>>]
\* HashMap::insert
TagsInsert(t, key, value) ==
  [k \in DOMAIN t \cup {key} |-> IF k = key THEN value ELSE t[k]]

\* tags_intern with `< 250` for `<= 250`.
tags_intern_below_250(strs, key_bytes, value_bytes) ==
  IF Len(key_bytes) + Len(value_bytes) < 250
  THEN LET pushed == <<<<key_bytes, value_bytes>>>> \o strs
       IN  IF Len(pushed) > 15000 THEN SubSeq(pushed, 1, Len(pushed) - 1) ELSE pushed
  ELSE strs

\* The insertion of an inline key/value pair (parse.rs 109-112).
tags_intern(strs, key_bytes, value_bytes) ==
  IF Len(key_bytes) + Len(value_bytes) <= 250
  THEN LET pushed == <<<<key_bytes, value_bytes>>>> \o strs
       IN  IF Len(pushed) > 15000 THEN SubSeq(pushed, 1, Len(pushed) - 1) ELSE pushed
  ELSE strs

\* The while loop of tags, at `offset` with the mapping and the table so far.
RECURSIVE tags_loop(_, _, _, _)
\* An inline pair (parse.rs 94-112), at `offset` behind the zero selector.
tags_inline(buf, offset, t, strs) ==
  LET i == NulPos(buf, offset)
      key_bytes == Slice(buf, offset, i)
      j == NulPos(buf, i + 1)
      value_bytes == Slice(buf, i + 1, j)
  IN  IF ~Utf8(key_bytes) THEN With(StringEncodingError, strs)
      ELSE IF i + 1 > Len(buf) THEN With(SliceOutOfRange, strs)
      ELSE IF ~Utf8(value_bytes) THEN With(StringEncodingError, strs)
      ELSE tags_loop(buf, j + 1, TagsInsert(t, key_bytes, value_bytes),
                     tags_intern(strs, key_bytes, value_bytes))

\* A pair by reference (parse.rs 114-126); `offset` is behind the selector x.
tags_reference(buf, offset, x, t, strs) ==
  LET pair == strings_get(strs, x) IN
  IF pair = None THEN With(StringUnavailable(x), strs)
  ELSE IF ~Utf8(pair[1][1]) \/ ~Utf8(pair[1][2]) THEN With(StringEncodingError, strs)
  ELSE tags_loop(buf, offset, TagsInsert(t, pair[1][1], pair[1][2]), strs)

tags_loop(buf, offset, t, strs) ==
  IF offset >= Len(buf) THEN With(Ok(offset, t), strs) ELSE
  Try(unsigned(SliceFrom(buf, offset)), strs, LAMBDA r_sel :
  IF r_sel.v = W0
  THEN tags_inline(buf, offset + r_sel.n, t, strs)
  ELSE tags_reference(buf, offset + r_sel.n, r_sel.v, t, strs))

tags(buf, strs) == tags_loop(buf, 0, EmptyTags, strs)

(***************************************************************************)
(* Decoder::flush                                                          *)
(***************************************************************************)
\* `x as i32` of an i64, kept as the i64 it reads as (`as i64` of the i32).
AsI32(w) ==
  LET ext == IF w[2] >= 32768 THEN 65535 ELSE 0 IN <<w[1], w[2], ext, ext>>

\* The arguments flush gives info: the id and the metadata of self.prev.
prev_id_of(prv) == IF prv = None THEN None ELSE get_id(prv[1])
prev_info_of(prv) == IF prv = None THEN None ELSE get_info(prv[1])

Element(type, id, inf, data, t) ==
  [type |-> type, id |-> id, info |-> inf, data |-> data, tags |-> t]

\* The data of self.prev when it is a record of the given type, else None.
prev_data_of(prv, type) ==
  IF prv # None /\ prv[1].type = type THEN prv[1].data ELSE None

\* tags on the rest of the body, closing an element (lib.rs 224, 262, 337).
flush_tags(type, buf, offset, id, inf, data, strs) ==
  IF offset > Len(buf) THEN With(SliceOutOfRange, strs) ELSE
  TryWith(tags(SliceFrom(buf, offset), strs), LAMBDA r_tags :
  With(Ok(0, Some(Element(type, id, inf, Some(data), r_tags.res.v))), r_tags.strings))

\* node_data where a node without metadata has no data either.
node_data_none_without_info(buf, prv, o1, id, inf, strs) ==
  LET prev_data == prev_data_of(prv, "Node")
      lon_base == IF prev_data = None THEN W0 ELSE prev_data[1].longitude
      lat_base == IF prev_data = None THEN W0 ELSE prev_data[1].latitude
  IN
  IF o1 = Len(buf) \/ inf = None
  THEN With(Ok(0, Some(Element("Node", id, inf, None, EmptyTags))), strs) ELSE
  IF o1 > Len(buf) THEN With(SliceOutOfRange, strs) ELSE
  Try(signed(SliceFrom(buf, o1)), strs, LAMBDA r_lon :
  IF AddPanics(r_lon.v, lon_base) THEN With(AddOverflow, strs) ELSE
  Try(signed(SliceFrom(buf, o1 + r_lon.n)), strs, LAMBDA r_lat :
  IF AddPanics(r_lat.v, lat_base) THEN With(AddOverflow, strs) ELSE
  flush_tags("Node", buf, o1 + r_lon.n + r_lat.n, id, inf,
             [longitude |-> AsI32(WAdd(r_lon.v, lon_base)),
              latitude |-> AsI32(WAdd(r_lat.v, lat_base))], strs)))

\* A node behind its info (lib.rs 197-231): o1 bytes read, table strs.
node_data(buf, prv, o1, id, inf, strs) ==
  LET prev_data == prev_data_of(prv, "Node")
      lon_base == IF prev_data = None THEN W0 ELSE prev_data[1].longitude
      lat_base == IF prev_data = None THEN W0 ELSE prev_data[1].latitude
  IN
  IF o1 = Len(buf)
  THEN With(Ok(0, Some(Element("Node", id, inf, None, EmptyTags))), strs) ELSE
  IF o1 > Len(buf) THEN With(SliceOutOfRange, strs) ELSE
  Try(signed(SliceFrom(buf, o1)), strs, LAMBDA r_lon :
  IF AddPanics(r_lon.v, lon_base) THEN With(AddOverflow, strs) ELSE
  Try(signed(SliceFrom(buf, o1 + r_lon.n)), strs, LAMBDA r_lat :
  IF AddPanics(r_lat.v, lat_base) THEN With(AddOverflow, strs) ELSE
  flush_tags("Node", buf, o1 + r_lon.n + r_lat.n, id, inf,
             [longitude |-> AsI32(WAdd(r_lon.v, lon_base)),
              latitude |-> AsI32(WAdd(r_lat.v, lat_base))], strs)))

flush_node(buf, prv, strs) ==
  TryWith(info(SliceFrom(buf, 0), prev_id_of(prv), prev_info_of(prv), strs),
          LAMBDA r_info : node_data(buf, prv, r_info.res.n, r_info.res.v[1],
                                    r_info.res.v[2], r_info.strings))

\* The reference loop of a way (lib.rs 255-261); offsets are words where the
\* code compares usize values that the body's varints make arbitrarily large.
RECURSIVE way_refs(_, _, _, _, _, _)
\* way_refs without `prev_ref = r`: every delta is taken against the base.
way_refs_fixed_base(buf, offset, ref_end, prev_ref, refs, strs) ==
  IF ~WLtU(WNat(offset), ref_end) THEN With(Ok(offset, refs), strs) ELSE
  Try(signed(SliceFrom(buf, offset)), strs, LAMBDA r_ref :
  IF AddPanics(r_ref.v, prev_ref) THEN With(AddOverflow, strs)
  ELSE way_refs(buf, offset + r_ref.n, ref_end, prev_ref,
                Append(refs, WAdd(r_ref.v, prev_ref)), strs))

way_refs(buf, offset, ref_end, prev_ref, refs, strs) ==
  IF ~WLtU(WNat(offset), ref_end) THEN With(Ok(offset, refs), strs) ELSE
  Try(signed(SliceFrom(buf, offset)), strs, LAMBDA r_ref :
  IF AddPanics(r_ref.v, prev_ref) THEN With(AddOverflow, strs)
  ELSE way_refs(buf, offset + r_ref.n, ref_end, WAdd(r_ref.v, prev_ref),
                Append(refs, WAdd(r_ref.v, prev_ref)), strs))

\* A way behind its info (lib.rs 236-268).
way_data(buf, prv, o1, id, inf, strs) ==
  LET prev_data == prev_data_of(prv, "Way")
      prev_ref == IF prev_data = None \/ prev_data[1].refs = <<>> THEN W0
                  ELSE prev_data[1].refs[Len(prev_data[1].refs)]
  IN
  IF o1 = Len(buf)
  THEN With(Ok(0, Some(Element("Way", id, inf, None, EmptyTags))), strs) ELSE
  IF o1 > Len(buf) THEN With(SliceOutOfRange, strs) ELSE
  Try(unsigned(SliceFrom(buf, o1)), strs, LAMBDA r_len :
  LET ref_end == WAddC(WNat(o1 + r_len.n), r_len.v) IN
  IF overflow_checks /\ ref_end.carry = 1 THEN With(AddOverflow, strs) ELSE
  TryWith(way_refs(buf, o1 + r_len.n, ref_end.w, prev_ref, <<>>, strs), LAMBDA r_refs :
  flush_tags("Way", buf, r_refs.res.n, id, inf, [refs |-> r_refs.res.v], strs)))

flush_way(buf, prv, strs) ==
  TryWith(info(SliceFrom(buf, 0), prev_id_of(prv), prev_info_of(prv), strs),
          LAMBDA r_info : way_data(buf, prv, r_info.res.n, r_info.res.v[1],
                                   r_info.res.v[2], r_info.strings))

\* The insertion of an inline type+role string (lib.rs 306-309).
member_intern(strs, mbytes) ==
  IF Len(mbytes) <= 250
  THEN LET pushed == <<<<mbytes, <<>>>>>> \o strs
       IN  IF Len(pushed) > 15000 THEN SubSeq(pushed, 1, Len(pushed) - 1) ELSE pushed
  ELSE strs

RECURSIVE relation_members(_, _, _, _, _, _)
\* member_push where a member of unknown type ends the member loop.
member_push_partial(buf, offset, ref_end, prev_id, members, strs, m_id, mstring) ==
  IF mstring = <<>> THEN With(Panic("index out of bounds"), strs)
  ELSE IF mstring[1] \notin {48, 49, 50} THEN With(Ok(offset, members), strs)
  ELSE IF ~Utf8(SliceFrom(mstring, 1)) THEN With(StringEncodingError, strs)
  ELSE relation_members(buf, offset, ref_end, prev_id,
         Append(members,
                [id |-> m_id,
                 element_type |-> CASE mstring[1] = 48 -> "Node"
                                    [] mstring[1] = 49 -> "Way"
                                    [] OTHER -> "Relation",
                 role |-> SliceFrom(mstring, 1)]),
         strs)

\* The push of one member (lib.rs 322-335) and the rest of the loop.
member_push(buf, offset, ref_end, prev_id, members, strs, m_id, mstring) ==
  IF mstring = <<>> THEN With(Panic("index out of bounds"), strs)
  ELSE IF mstring[1] \notin {48, 49, 50}
  THEN With(Err([kind |-> "UnexpectedElementType", received |-> mstring[1]]), strs)
  ELSE IF ~Utf8(SliceFrom(mstring, 1)) THEN With(StringEncodingError, strs)
  ELSE relation_members(buf, offset, ref_end, prev_id,
         Append(members,
                [id |-> m_id,
                 element_type |-> CASE mstring[1] = 48 -> "Node"
                                    [] mstring[1] = 49 -> "Way"
                                    [] OTHER -> "Relation",
                 role |-> SliceFrom(mstring, 1)]),
         strs)

\* The type+role string of a member (lib.rs 298-321), behind its selector x.
member_string(buf, offset, x, ref_end, prev_id, members, strs, m_id) ==
  IF x = W0
  THEN LET i == NulPos(buf, offset)
           mbytes == Slice(buf, offset, i)
       IN  member_push(buf, i + 1, ref_end, prev_id, members,
                       member_intern(strs, mbytes), m_id, mbytes)
  ELSE LET pair == strings_get(strs, x) IN
       IF pair = None THEN With(StringUnavailable(x), strs)
       ELSE member_push(buf, offset, ref_end, prev_id, members, strs, m_id, pair[1][1])

\* relation_members where the id of a member is the base of the next one.
relation_members_chained(buf, offset, ref_end, prev_id, members, strs) ==
  IF ~WLtU(WNat(offset), ref_end) THEN With(Ok(offset, members), strs) ELSE
  IF offset > Len(buf) THEN With(SliceOutOfRange, strs) ELSE
  Try(signed(SliceFrom(buf, offset)), strs, LAMBDA r_id :
  IF AddPanics(r_id.v, prev_id) THEN With(AddOverflow, strs) ELSE
  Try(unsigned(SliceFrom(buf, offset + r_id.n)), strs, LAMBDA r_sel :
  member_string(buf, offset + r_id.n + r_sel.n, r_sel.v, ref_end,
                WAdd(r_id.v, prev_id), members, strs, WAdd(r_id.v, prev_id))))

\* The member loop of a relation (lib.rs 292-336).
relation_members(buf, offset, ref_end, prev_id, members, strs) ==
  IF ~WLtU(WNat(offset), ref_end) THEN With(Ok(offset, members), strs) ELSE
  IF offset > Len(buf) THEN With(SliceOutOfRange, strs) ELSE
  Try(signed(SliceFrom(buf, offset)), strs, LAMBDA r_id :
  IF AddPanics(r_id.v, prev_id) THEN With(AddOverflow, strs) ELSE
  Try(unsigned(SliceFrom(buf, offset + r_id.n)), strs, LAMBDA r_sel :
  member_string(buf, offset + r_id.n + r_sel.n, r_sel.v, ref_end, prev_id, members,
                strs, WAdd(r_id.v, prev_id))))

\* A relation behind its info (lib.rs 273-343).
relation_data(buf, prv, o1, id, inf, strs) ==
  LET prev_data == prev_data_of(prv, "Relation")
      prev_id == IF prev_data = None \/ prev_data[1].members = <<>> THEN W0
                 ELSE prev_data[1].members[Len(prev_data[1].members)].id
  IN
  IF o1 = Len(buf)
  THEN With(Ok(0, Some(Element("Relation", id, inf, None, EmptyTags))), strs) ELSE
  IF o1 > Len(buf) THEN With(SliceOutOfRange, strs) ELSE
  Try(unsigned(SliceFrom(buf, o1)), strs, LAMBDA r_len :
  LET ref_end == WAddC(WNat(o1 + r_len.n), r_len.v) IN
  IF overflow_checks /\ ref_end.carry = 1 THEN With(AddOverflow, strs) ELSE
  TryWith(relation_members(buf, o1 + r_len.n, ref_end.w, prev_id, <<>>, strs),
          LAMBDA r_mem :
  flush_tags("Relation", buf, r_mem.res.n, id, inf, [members |-> r_mem.res.v],
             r_mem.strings)))

flush_relation(buf, prv, strs) ==
  TryWith(info(SliceFrom(buf, 0), prev_id_of(prv), prev_info_of(prv), strs),
          LAMBDA r_info : relation_data(buf, prv, r_info.res.n, r_info.res.v[1],
                                        r_info.res.v[2], r_info.strings))

flush_timestamp(buf, strs) ==
  Try(signed(SliceFrom(buf, 0)), strs, LAMBDA r :
  With(Ok(0, Some([type |-> "Timestamp", time |-> r.v])), strs))

flush_bbox(buf, strs) ==
  Try(signed(SliceFrom(buf, 0)), strs, LAMBDA r1 :
  Try(signed(SliceFrom(buf, r1.n)), strs, LAMBDA r2 :
  Try(signed(SliceFrom(buf, r1.n + r2.n)), strs, LAMBDA r3 :
  Try(signed(SliceFrom(buf, r1.n + r2.n + r3.n)), strs, LAMBDA r4 :
  With(Ok(0, Some([type |-> "BBox", x1 |-> AsI32(r1.v), y1 |-> AsI32(r2.v),
                   x2 |-> AsI32(r3.v), y2 |-> AsI32(r4.v)])), strs)))))

\* flush on the body `buf` (self.chunk) of a frame of type d_type.
flush(d_type, buf, prv, strs) ==
  CASE d_type = Some("Node") -> flush_node(buf, prv, strs)
    [] d_type = Some("Way") -> flush_way(buf, prv, strs)
    [] d_type = Some("Relation") -> flush_relation(buf, prv, strs)
    [] d_type = Some("Timestamp") -> flush_timestamp(buf, strs)
    [] d_type = Some("BBox") -> flush_bbox(buf, strs)
    [] OTHER -> With(Ok(0, None), strs)

(***************************************************************************)
(* The Decoder as a record of its fields (with the source, the stream's    *)
(* output and the history), and the variables as that record.              *)
(***************************************************************************)
\* Decoder::new(reader) on a source that will deliver `stream`.
DecoderNew(stream, failures) ==
  [reader |-> stream, read_errors |-> failures,
   buffer |-> <<>>, index |-> 0, buffer_len |-> 0, state |-> "Begin",
   data_type |-> None, len |-> W0, npow |-> W1, chunk |-> <<>>, size |-> 0,
   strings |-> <<>>, prev |-> None,
   out |-> <<>>, ended |-> "no", log |-> <<>>, prefix |-> <<>>]

Cur ==
  [reader |-> reader, read_errors |-> read_errors,
   buffer |-> buffer, index |-> index, buffer_len |-> buffer_len, state |-> state,
   data_type |-> data_type, len |-> len, npow |-> npow, chunk |-> chunk, size |-> size,
   strings |-> strings, prev |-> prev,
   out |-> out, ended |-> ended, log |-> log, prefix |-> prefix]

\* The variables hold the decoder d (Init), resp. become it (an action).
Is(d) ==
  /\ reader = d.reader /\ read_errors = d.read_errors
  /\ buffer = d.buffer /\ index = d.index /\ buffer_len = d.buffer_len
  /\ state = d.state /\ data_type = d.data_type /\ len = d.len /\ npow = d.npow
  /\ chunk = d.chunk /\ size = d.size /\ strings = d.strings /\ prev = d.prev
  /\ out = d.out /\ ended = d.ended /\ log = d.log /\ prefix = d.prefix

Becomes(d) ==
  /\ reader' = d.reader /\ read_errors' = d.read_errors
  /\ buffer' = d.buffer /\ index' = d.index /\ buffer_len' = d.buffer_len
  /\ state' = d.state /\ data_type' = d.data_type /\ len' = d.len /\ npow' = d.npow
  /\ chunk' = d.chunk /\ size' = d.size /\ strings' = d.strings /\ prev' = d.prev
  /\ out' = d.out /\ ended' = d.ended /\ log' = d.log /\ prefix' = d.prefix

decoder_vars == <<reader, read_errors, buffer, index, buffer_len, state, data_type,
                  len, npow, chunk, size, strings, prev, out, ended, log, prefix>>

(***************************************************************************)
(* decode: the closure given to unfold                                     *)
(***************************************************************************)
\* next_item returned Ok(Some(x)) or Err(e): the stream yields the item and
\* keeps the decoder for the next poll (lib.rs 379-380).
yield(d, item) == [d EXCEPT !.out = Append(@, item)]
\* next_item returned Ok(None): the stream ends (lib.rs 378).
finish(d) == [d EXCEPT !.ended = "end"]
\* A panic unwinds through the poll: nothing more comes out of the stream.
panicked(d) == [d EXCEPT !.ended = "panic"]

(***************************************************************************)
(* Decoder::next_item                                                      *)
(***************************************************************************)
Min(a, b) == IF a <= b THEN a ELSE b

\* A read that delivers n >= 1 bytes (lib.rs 118-121).
read(d, n) ==
  [d EXCEPT !.buffer = SubSeq(d.reader, 1, n),
            !.reader = SubSeq(d.reader, n + 1, Len(d.reader)),
            !.buffer_len = n,
            !.index = 0]

\* A read of zero bytes: break, Ok(None) (lib.rs 118-122, 189).
read_end(d) ==
  finish([d EXCEPT !.buffer = <<>>, !.buffer_len = 0, !.index = 0])

\* A read that fails: Err(StreamReadError), nothing assigned (lib.rs 119-120).
read_fail(d) ==
  yield([d EXCEPT !.read_errors = @ - 1], Err([kind |-> "StreamReadError"]))

\* The frame type of a type byte (lib.rs 140-151).
type_of(b) ==
  CASE b = 16 -> Some("Node")
    [] b = 17 -> Some("Way")
    [] b = 18 -> Some("Relation")
    [] b = 219 -> Some("BBox")
    [] b = 220 -> Some("Timestamp")
    [] b = 224 -> Some("Header")
    [] b = 238 -> Some("Sync")
    [] b = 239 -> Some("Jump")
    [] b = 255 -> Some("Reset")
    [] OTHER -> None

\* What follows flush in the State::Data branch (lib.rs 164-175), given its
\* result r; d is the decoder with the chunk extended, j the end of the copy.
after_flush(d, j, r) ==
  LET d3 == [d EXCEPT !.strings = r.strings, !.state = "Type", !.len = W0,
                      !.size = 0, !.chunk = <<>>]
  IN  CASE r.res.tag = "Panic" -> panicked([d EXCEPT !.strings = r.strings])
        [] r.res.tag = "Err" -> yield([d EXCEPT !.strings = r.strings], r.res)
        [] r.res.tag = "Ok" /\ r.res.v # None ->
             yield([d3 EXCEPT !.prev = r.res.v, !.index = j,
                              !.log = Append(@, [ev |-> "record", data |-> r.res.v[1],
                                                 body |-> d.chunk, prev |-> d.prev,
                                                 strings |-> d.strings])],
                   Ok(0, r.res.v[1]))
        [] OTHER ->
             \* index = j - 1, then index += 1: with j = 0 the subtraction
             \* overflows (a panic with overflow checks, else it wraps and
             \* the addition wraps back)
             IF j = 0 /\ overflow_checks THEN panicked(d3)
             ELSE [d3 EXCEPT !.index = j]

\* The State::Data branch (lib.rs 159-175) and the `index += 1` after it;
\* d is the decoder, j the end of the copy.  A j before index (the sum below
\* has wrapped) is a slice whose start is after its end: a panic.
copy_to(d, j) ==
  LET d1 == [d EXCEPT !.chunk = @ \o Slice(d.buffer, d.index, j),
                      !.size = @ + (j - d.index)]
  IN  IF j < d.index THEN panicked(d)
      ELSE IF ~WLtU(WNat(d1.size), d.len)
      THEN after_flush(d1, j, flush(d.data_type, d1.chunk, d.prev, d.strings))
      ELSE [d1 EXCEPT !.index = j]

\* j = buffer_len.min(index + len - size), in usize arithmetic (lib.rs 160).
data_branch(d) ==
  LET end == WAddC(WNat(d.index), d.len)
      rest == WSub(end.w, WNat(d.size))
  IN  IF overflow_checks /\ (end.carry = 1 \/ WLtU(end.w, WNat(d.size)))
      THEN panicked(d)
      ELSE copy_to(d, IF WIsSmall(rest) /\ WVal(rest) <= d.buffer_len
                      THEN WVal(rest) ELSE d.buffer_len)

\* reset_branch without `self.prev = None`.
reset_branch_keeps_prev(d) ==
  [d EXCEPT !.state = "Type", !.log = Append(@, [ev |-> "reset"])]

\* The State::Type branch on 0xff, the reset marker (lib.rs 135-137).
reset_branch(d) ==
  [d EXCEPT !.state = "Type", !.prev = None, !.log = Append(@, [ev |-> "reset"])]

\* type_branch where the end marker 0xfe leads to State::End.
type_branch_end_marker(d, b) ==
  IF b = 254 THEN [d EXCEPT !.state = "End"]
  ELSE [d EXCEPT !.state = "Len", !.data_type = type_of(b), !.prefix = <<>>]

\* The State::Type branch on another byte (lib.rs 138-151).
type_branch(d, b) ==
  [d EXCEPT !.state = "Len", !.data_type = type_of(b), !.prefix = <<>>]

\* The State::Len branch (lib.rs 152-158).
\* len and npow are 64-bit: with overflow checks the product, the sum and
\* `npow *= 0x80` panic when they overflow, else they wrap.
len_branch(d, b) ==
  LET term == WMulSmall(d.npow, b % 128)
      sum == WAddC(d.len, term.w)
      next == WMulSmall(d.npow, 128)
  IN  IF overflow_checks /\ (term.carry # 0 \/ sum.carry # 0 \/ next.carry # 0)
      THEN panicked(d)
      ELSE [d EXCEPT !.len = sum.w,
                     !.prefix = Append(@, b),
                     !.npow = IF b < 128 THEN W1 ELSE next.w,
                     !.state = IF b < 128 THEN "Data" ELSE "Len"]

\* while_body where State::Begin takes any byte for the signature.
while_body_any_signature(d) ==
  LET b == d.buffer[d.index + 1]
      Advance(e) == IF e.ended = "panic" THEN e ELSE [e EXCEPT !.index = @ + 1]
  IN  IF d.state = "Begin" THEN Advance([d EXCEPT !.state = "Type"])
      ELSE IF d.state = "Type" /\ b = 255 THEN Advance(reset_branch(d))
      ELSE IF d.state = "Type" THEN Advance(type_branch(d, b))
      ELSE IF d.state = "Len" THEN Advance(len_branch(d, b))
      ELSE IF d.state = "Data" THEN data_branch(d)
      ELSE Advance(d)

\* One iteration of `while self.index < self.buffer_len` (lib.rs 124-187).
while_body(d) ==
  LET b == d.buffer[d.index + 1]
      Advance(e) == IF e.ended = "panic" THEN e ELSE [e EXCEPT !.index = @ + 1]
  IN  IF d.state = "Begin" /\ b # 255
      THEN yield(d, Err([kind |-> "UnexpectedByte", expected |-> 255, received |-> b]))
      ELSE IF d.state = "Begin" THEN Advance([d EXCEPT !.state = "Type"])
      ELSE IF d.state = "Type" /\ b = 255 THEN Advance(reset_branch(d))
      ELSE IF d.state = "Type" THEN Advance(type_branch(d, b))
      ELSE IF d.state = "Len" THEN Advance(len_branch(d, b))
      ELSE IF d.state = "Data" THEN data_branch(d)
      ELSE IF d.state = "End" /\ b # 254
      THEN yield(d, Err([kind |-> "UnexpectedByte", expected |-> 243, received |-> b]))
      ELSE Advance(d)

(***************************************************************************)
(* The byte streams given to the decoder                                   *)
(***************************************************************************)
MaxFrames == 2     \* frames per stream in the exhaustive family
MaxRead == 3       \* a read delivers 1..MaxRead bytes, or all that is left
MaxOut == 4        \* the consumer polls the stream for at most MaxOut items
MaxReadErrors == 1 \* failures of the source in one session

Int64(n) == IF n >= 0 THEN WNat(n) ELSE WNeg(WNat(-n))
SI(n) == EncodeSigned(Int64(n))
UI(n) == EncodeUnsigned(WNat(n))
\* A frame: type byte, length prefix, body.
Frame(t, body) == <<t>> \o UI(Len(body)) \o body
\* A NUL-terminated string.
Str(bytes) == bytes \o <<0>>

\* id +2, version 1, timestamp +3, changeset +4, inline author (7, "u"),
\* longitude +1, latitude -1, inline tag "k" = "v"
NodeFull ==
  Frame(16, SI(2) \o UI(1) \o SI(3) \o SI(4) \o UI(0) \o UI(7) \o <<0>> \o Str(<<117>>)
            \o SI(1) \o SI(-1) \o <<0>> \o Str(<<107>>) \o Str(<<118>>))
\* id +1, version 2, timestamp +1, changeset +1, author reference 2,
\* longitude +1, latitude +1, tag reference 1
NodeRefs ==
  Frame(16, SI(1) \o UI(2) \o SI(1) \o SI(1) \o UI(2) \o SI(1) \o SI(1) \o UI(1))
NodeA == Frame(16, SI(5) \o UI(0))          \* id +5, version 0
WayA == Frame(17, SI(3) \o UI(0))           \* id +3, version 0
TimestampA == Frame(220, SI(9))
BBoxA == Frame(219, SI(1) \o SI(-2) \o SI(3) \o SI(4))
Header0 == <<224, 0>>                        \* a header with declared length 0
Sync1 == <<238, 1, 7>>
ResetMarker == <<255>>
NodeBad == <<16, 1, 128>>                    \* a body that is an unterminated varint
\* inline tag "a" = "b", then tag reference 2
NodeTagRef2 ==
  Frame(16, SI(1) \o UI(0) \o SI(0) \o SI(0) \o <<0>> \o Str(<<97>>) \o Str(<<98>>) \o UI(2))

ValidFrames == {NodeA, WayA, TimestampA, Header0, ResetMarker}

RECURSIVE FrameSeqs(_)
FrameSeqs(n) ==
  IF n = 0 THEN {<<>>}
  ELSE FrameSeqs(n - 1) \cup {s \o f : s \in FrameSeqs(n - 1), f \in ValidFrames}

Signature == <<255>>

\* Streams of valid, complete frames.
ValidStreams ==
  {Signature \o s : s \in FrameSeqs(MaxFrames)}
    \cup {Signature \o NodeFull \o ResetMarker \o NodeRefs,
          Signature \o NodeFull \o NodeRefs,
          Signature \o NodeA \o BBoxA \o NodeA,
          Signature \o Header0 \o Sync1 \o NodeFull \o Header0}

Prefixes(s) == {SubSeq(s, 1, k) : k \in 0..Len(s)}

\* Streams that end inside a frame, or do not open with the signature.
BrokenStreams ==
  Prefixes(Signature \o NodeFull) \cup Prefixes(Signature \o Sync1 \o WayA)
    \cup {<<16, 2, 10, 0>>, Signature \o NodeTagRef2 \o NodeA}
    \cup {Signature \o s \o NodeBad \o t : s \in FrameSeqs(1), t \in FrameSeqs(1)}

\* Streams of ways with references, relations with members, nodes with
\* metadata and data, frames without a record, and long length prefixes.
FurtherStreams ==
  LET \* a jump frame whose body looks like type bytes, a frame of no known
      \* type, and the end marker of an o5m file
      Jump2 == <<239, 2, 16, 16>>
      Unknown1 == <<66, 1, 255>>
      EndMarker == <<254>>
      \* the body of a way or relation of version 0: id delta, the section
      \* of references or members with its length in bytes, no tags
      SectionBody(id_delta, section) ==
        SI(id_delta) \o UI(0) \o UI(Len(section)) \o section
      \* ways with id +1 and reference deltas (+10, -3), (+2, +5), none
      WayR1 == Frame(17, SectionBody(1, SI(10) \o SI(-3)))
      WayR2 == Frame(17, SectionBody(1, SI(2) \o SI(5)))
      WayR0 == Frame(17, SectionBody(1, <<>>))
      \* a way of version 1, timestamp +5, changeset +1, author (7, "u")
      WayFull ==
        Frame(17, SI(3) \o UI(1) \o SI(5) \o SI(1) \o UI(0) \o UI(7) \o <<0>>
                  \o Str(<<117>>))
      \* a member: id delta, then its type+role string inline
      Inline(id_delta, str) == SI(id_delta) \o <<0>> \o Str(str)
      \* relations with id +1: members (+4, "1r") and (+2, reference 1);
      \* (+1, reference 1) and (+1, "0"); (+4, "1r") and (+2, "9x");
      \* (+4, "0a") and (+2, reference 2: the tag of NodeFull)
      RelGood ==
        Frame(18, SectionBody(1, Inline(4, <<49, 114>>) \o SI(2) \o UI(1)))
      RelNext ==
        Frame(18, SectionBody(1, SI(1) \o UI(1) \o Inline(1, <<48>>)))
      RelBadInline ==
        Frame(18, SectionBody(1, Inline(4, <<49, 114>>) \o Inline(2, <<57, 120>>)))
      RelBadRef ==
        Frame(18, SectionBody(1, Inline(4, <<48, 97>>) \o SI(2) \o UI(2)))
      \* nodes with id +1 and coordinates (+1, +1): of version 0; of
      \* version 1 with timestamp delta 0; with timestamp delta -3
      NodeV0Data == Frame(16, SI(1) \o UI(0) \o SI(1) \o SI(1))
      NodeTs0 == Frame(16, SI(1) \o UI(1) \o SI(0) \o SI(1) \o SI(1))
      NodeTsBack == Frame(16, SI(1) \o UI(1) \o SI(-3) \o SI(1) \o SI(1))
      \* header frames whose length prefix has ten and eleven bytes, the
      \* prefix of u64::MAX, and a node whose length 2 is written in two bytes
      Run9(c) == <<c, c, c, c, c, c, c, c, c>>
      HeaderTen == <<224>> \o Run9(128) \o <<1>>
      HeaderEleven == <<224>> \o Run9(128) \o <<128, 1>>
      HeaderMax == <<224>> \o Run9(255) \o <<1>>
      NodeWide == <<16, 130, 0, 10, 0>>
      \* bodies that end early: a node whose inline tag key "a" has no NUL;
      \* nodes whose inline author ends with the user name "u" without a
      \* NUL, and with the uid 7; a relation whose member has an empty
      \* type+role string
      NodeKeyOpen == Frame(16, SI(1) \o UI(0) \o SI(0) \o SI(0) \o <<0, 97>>)
      NodeUserOpen ==
        Frame(16, SI(1) \o UI(1) \o SI(1) \o SI(1) \o UI(0) \o UI(7) \o <<0, 117>>)
      NodeUidLast == Frame(16, SI(1) \o UI(1) \o SI(1) \o SI(1) \o UI(0) \o UI(7))
      RelEmptyRole == Frame(18, SectionBody(1, SI(4) \o <<0, 0>>))
  IN  {Signature \o a \o b : a, b \in {WayR1, WayR2, WayR0}}
        \cup {Signature \o WayR1 \o NodeA \o WayR2,
              Signature \o WayA \o WayR2,
              Signature \o WayR1 \o ResetMarker \o WayR2,
              Signature \o RelGood \o RelNext,
              Signature \o RelGood \o WayA \o RelNext,
              Signature \o RelBadInline \o NodeA,
              Signature \o NodeFull \o RelBadRef,
              Signature \o NodeV0Data \o NodeV0Data,
              Signature \o NodeTs0,
              Signature \o NodeFull \o NodeTsBack,
              Signature \o WayFull \o NodeFull,
              Signature \o WayFull \o NodeTs0,
              Signature \o Jump2 \o Unknown1 \o NodeA,
              Signature \o NodeA \o Sync1 \o Header0 \o NodeA,
              Signature \o NodeA \o EndMarker,
              Signature \o NodeWide,
              Signature \o HeaderTen,
              Signature \o HeaderEleven \o NodeA,
              Signature \o HeaderMax \o NodeA,
              Signature \o NodeKeyOpen \o NodeA,
              Signature \o NodeUserOpen \o NodeA,
              Signature \o NodeUidLast \o NodeA,
              Signature \o RelEmptyRole \o NodeA}

Streams == ValidStreams \cup BrokenStreams \cup FurtherStreams

(***************************************************************************)
(* Spec: the stream of decode() polled by its consumer                     *)
(***************************************************************************)
NoProbe == [op |-> "none"]

Init ==
  /\ overflow_checks \in BOOLEAN
  /\ input \in Streams
  /\ \E failures \in {0, IF input \in BrokenStreams THEN MaxReadErrors ELSE 0} :
       Is(DecoderNew(input, failures))
  /\ probe = NoProbe

\* unfold: the stream is polled again until an item is None; the consumer
\* takes at most MaxOut items.
Polled == ended = "no" /\ Len(out) < MaxOut

ReadSizes(n) == {k \in 1..n : k <= MaxRead \/ k = n}

Read ==
  /\ Polled /\ index >= buffer_len /\ reader # <<>>
  /\ \E n \in ReadSizes(Len(reader)) : Becomes(read(Cur, n))
  /\ UNCHANGED <<overflow_checks, input, probe>>

ReadEnd ==
  /\ Polled /\ index >= buffer_len /\ reader = <<>>
  /\ Becomes(read_end(Cur))
  /\ UNCHANGED <<overflow_checks, input, probe>>

ReadFail ==
  /\ Polled /\ index >= buffer_len /\ read_errors > 0
  /\ Becomes(read_fail(Cur))
  /\ UNCHANGED <<overflow_checks, input, probe>>

\* The while loop is at a byte, in state st of the framer; one iteration.
At(st) == Polled /\ index < buffer_len /\ state = st
Iterate == Becomes(while_body(Cur)) /\ UNCHANGED <<overflow_checks, input, probe>>

BeginBad == At("Begin") /\ buffer[index + 1] # 255 /\ Iterate
BeginOk == At("Begin") /\ buffer[index + 1] = 255 /\ Iterate
ResetByte == At("Type") /\ buffer[index + 1] = 255 /\ Iterate
TypeByte == At("Type") /\ buffer[index + 1] # 255 /\ Iterate
LenByte == At("Len") /\ Iterate
DataBytes == At("Data") /\ Iterate

Next ==
  \/ Read \/ ReadEnd \/ ReadFail
  \/ BeginBad \/ BeginOk \/ ResetByte \/ TypeByte \/ LenByte \/ DataBytes

Spec == Init /\ [][Next]_vars

(***************************************************************************)
(* Properties of the framer (Spec)                                         *)
(***************************************************************************)
\* The stream of decode() on decoder d when every read delivers all that is
\* left of the source, polled as in Polled.
RECURSIVE single_read(_)
single_read(d) ==
  IF d.ended # "no" \/ Len(d.out) >= MaxOut THEN d
  ELSE IF d.index < d.buffer_len THEN single_read(while_body(d))
  ELSE IF d.reader # <<>> THEN single_read(read(d, Len(d.reader)))
  ELSE single_read(read_end(d))

\* The consumer has all it will get of the stream.
Finished == ended # "no" \/ Len(out) >= MaxOut
\* Every read of the source so far has succeeded.
ReadsSucceeded == \A i \in 1..Len(out) : out[i] # Err([kind |-> "StreamReadError"])

\* C1: for a valid stream, whatever the split into non-empty reads, the
\* results of the polls are those of the run that reads the stream at once.
C1_SplitEqualsSingleRead ==
  (Finished /\ input \in ValidStreams /\ ReadsSucceeded) =>
    LET whole == single_read(DecoderNew(input, 0))
    IN  out = whole.out /\ ended = whole.ended

\* C1 without overflow checks (the release profile), where the claim is met.
C1_SplitEqualsSingleReadWrapping ==
  (Finished /\ input \in ValidStreams /\ ReadsSucceeded /\ ~overflow_checks) =>
    LET whole == single_read(DecoderNew(input, 0))
    IN  out = whole.out /\ ended = whole.ended

HasError(items) == \E i \in 1..Len(items) : items[i].tag = "Err"

\* C2: once the stream has produced an error, it produces no further item.
C2_NothingAfterFirstError == [][HasError(out) => out' = out]_vars

\* The source is exhausted and the decoder asks it for bytes.
AtZeroLengthRead == Polled /\ index >= buffer_len /\ reader = <<>>
\* A type byte has been seen and the length prefix or the body is incomplete.
MidFrame == state = "Len" \/ (state = "Data" /\ WLtU(WNat(size), len))

\* C3: a zero-length read in the middle of a frame produces an error, not a
\* clean end of the stream.
C3_MidFrameEndIsError ==
  [][(AtZeroLengthRead /\ MidFrame /\ read_errors = 0) =>
       (ended' # "end" /\ Len(out') = Len(out) + 1 /\ out'[Len(out')].tag = "Err")]_vars

IsRecord(i) == log[i].ev = "record"
IsElementRecord(i) == IsRecord(i) /\ IsElement(log[i].data)
Max(S) == CHOOSE x \in S : \A y \in S : y <= x

\* The id of the latest record of the type of record i emitted before it and
\* since the last reset, or 0.
SameTypeBase(i) ==
  LET earlier == {j \in 1..(i - 1) :
                    /\ IsElementRecord(j)
                    /\ log[j].data.type = log[i].data.type
                    /\ \A k \in (j + 1)..(i - 1) : log[k].ev # "reset"}
  IN  IF earlier = {} THEN W0 ELSE log[Max(earlier)].data.id

\* C4: the id of every decoded node, way and relation is its id delta plus
\* the id of the latest record of the same type since the start or the last
\* reset; records of other kinds in between do not change that base.
C4_IdDeltaPerType ==
  \A i \in 1..Len(log) :
    IsElementRecord(i) => log[i].data.id = WAdd(signed(log[i].body).v, SameTypeBase(i))

\* The framer is at a reset marker.
AtReset == At("Type") /\ buffer[index + 1] = 255

\* The deltas of the body of record i are the values of the record.
TakenLiterally(i) ==
  LET body == log[i].body
      r_id == signed(body)
      r_ver == unsigned(SliceFrom(body, r_id.n))
      r_ts == signed(SliceFrom(body, r_id.n + r_ver.n))
      r_cs == signed(SliceFrom(body, r_id.n + r_ver.n + r_ts.n))
      inf == log[i].data.info
  IN  /\ log[i].data.id = r_id.v
      /\ (inf # None /\ inf[1].timestamp # None) => inf[1].timestamp[1] = r_ts.v
      /\ (inf # None /\ inf[1].changeset # None) => inf[1].changeset[1] = r_cs.v

\* C5: a reset marker clears the previous record, leaves the interning table
\* as it is and the framer waiting for a type byte; the id, timestamp and
\* changeset of the next record are its deltas taken against 0.
C5_Reset ==
  /\ [][AtReset => (prev' = None /\ strings' = strings /\ state' = "Type"
                    /\ out' = out /\ index' = index + 1)]_vars
  /\ [](\A i \in 2..Len(log) :
          (log[i - 1].ev = "reset" /\ IsElementRecord(i)) => TakenLiterally(i))

\* A node with back-references to the author and the tag of the node before
\* the reset has been decoded, with its deltas taken against 0.
C5_ResetWitness ==
  /\ input = Signature \o NodeFull \o ResetMarker \o NodeRefs
  /\ Len(out) = 2 /\ out[2].tag = "Ok"
  /\ Len(log) = 3 /\ log[2].ev = "reset"
  /\ out[2].v.id = W1
  /\ out[2].v.info[1].timestamp = Some(W1)
  /\ out[2].v.info[1].changeset = Some(W1)
  /\ out[2].v.info[1].user = Some(<<117>>)
  /\ out[2].v.tags = TagsInsert(EmptyTags, <<107>>, <<118>>)

\* C11: a step in the body of a header, sync, jump or unknown frame, of any
\* declared length, yields nothing and leaves prev and the string table as
\* they are; it consumes the bytes of the body that the buffer holds and no
\* more, and once the declared number of bytes is consumed the framer waits
\* for the type byte of the next frame at the byte after the body.
C11_SkippedFrame ==
  [][LET left == WSub(len, WNat(size))
     IN  (At("Data") /\ data_type \in {Some("Header"), Some("Sync"), Some("Jump"), None}) =>
           /\ out' = out /\ ended' = ended /\ prev' = prev /\ strings' = strings
           /\ IF WIsSmall(left) /\ WVal(left) <= buffer_len - index
              THEN state' = "Type" /\ index' = index + WVal(left)
              ELSE /\ state' = "Data" /\ index' = buffer_len
                   /\ size' = size + (buffer_len - index)]_vars

\* C12: a step in State::Begin looks at the first byte of the stream and at
\* no other.  A first byte that is not 0xff yields UnexpectedByte with
\* expected 0xff and that byte, and no record ever comes out of the stream;
\* the byte 0xff is consumed without an item, the framer moves to State::Type
\* and is never in State::Begin again.
C12_Signature ==
  /\ [][(At("Begin") /\ buffer[index + 1] # 255) =>
          out' = Append(out, Err([kind |-> "UnexpectedByte", expected |-> 255,
                                  received |-> input[1]]))]_vars
  /\ [][(At("Begin") /\ buffer[index + 1] = 255) =>
          (state' = "Type" /\ index' = index + 1 /\ out' = out /\ ended' = ended)]_vars
  /\ [][state # "Begin" => state' # "Begin"]_vars
  /\ [](At("Begin") => Len(reader) + buffer_len - index = Len(input))
  /\ []((input # <<>> /\ input[1] # 255) =>
          \A i \in 1..Len(out) : out[i].tag = "Err")

\* A stream that opens with a node's type byte has yielded UnexpectedByte.
C12_SignatureWitness ==
  /\ input = <<16, 2, 10, 0>>
  /\ out = <<Err([kind |-> "UnexpectedByte", expected |-> 255, received |-> 16])>>

\* C13: when the body of a relation is complete and the type+role string of
\* its second member starts with another byte than '0', '1', '2' (the inline
\* string "9x", or reference 2 behind an inline "0a": the pair that was
\* latest in the table), the step yields UnexpectedElementType with that
\* byte and nothing else, and leaves prev as it is, although the first
\* member was good.  Whenever UnexpectedElementType is yielded, its byte is
\* none of '0', '1', '2', no record is emitted and prev is as it was.
C13_BadMemberType ==
  /\ [][LET left == WSub(len, WNat(size))
            body == chunk \o Slice(buffer, index, index + WVal(left))
            Rel(section) == SI(1) \o UI(0) \o UI(Len(section)) \o section
            Inline(id_delta, str) == SI(id_delta) \o <<0>> \o Str(str)
            Fails(b) ==
              /\ out' = Append(out, Err([kind |-> "UnexpectedElementType", received |-> b]))
              /\ prev' = prev /\ log' = log
        IN  (/\ At("Data") /\ data_type = Some("Relation")
             /\ WLtU(WNat(size), len) /\ WIsSmall(left)
             /\ WVal(left) <= buffer_len - index) =>
              /\ body = Rel(Inline(4, <<49, 114>>) \o Inline(2, <<57, 120>>)) => Fails(57)
              /\ (/\ body = Rel(Inline(4, <<48, 97>>) \o SI(2) \o UI(2))
                  /\ strings # <<>> /\ strings[1][1] # <<>>
                  /\ strings[1][1][1] \notin {48, 49, 50}) => Fails(strings[1][1][1])]_vars
  /\ [][(/\ Len(out') = Len(out) + 1
         /\ out'[Len(out')].tag = "Err"
         /\ out'[Len(out')].e.kind = "UnexpectedElementType") =>
          /\ out'[Len(out')].e.received \notin {48, 49, 50}
          /\ prev' = prev /\ log' = log]_vars

\* After a node, a relation whose second member refers to the node's tag
\* ("k", "v") has failed on the byte 'k'; prev is still the node.
C13_BadMemberTypeWitness ==
  /\ Len(out) = 2 /\ out[1].tag = "Ok"
  /\ out[2] = Err([kind |-> "UnexpectedElementType", received |-> 107])
  /\ prev # None /\ prev[1].type = "Node"

\* C14: the references of an emitted way of version 0 are the running sums
\* of the signed deltas that fill its reference section, whose extent is the
\* declared number of bytes: the first delta is taken against the last
\* reference of the way emitted immediately before it (against 0 when what
\* precedes is not a way with references), every later one against the
\* reference before it in the same way.
C14_WayReferences ==
  LET RECURSIVE Sums(_, _, _, _)
      Sums(buf, offset, ref_end, base) ==
        IF offset >= ref_end THEN <<>>
        ELSE LET r == signed(SliceFrom(buf, offset))
             IN  <<WAdd(r.v, base)>> \o Sums(buf, offset + r.n, ref_end, WAdd(r.v, base))
      HasRefs(i) ==
        /\ IsRecord(i) /\ log[i].data.type = "Way" /\ log[i].data.data # None
      Base(i) ==
        IF i > 1 /\ HasRefs(i - 1) /\ log[i - 1].data.data[1].refs # <<>>
        THEN log[i - 1].data.data[1].refs[Len(log[i - 1].data.data[1].refs)]
        ELSE W0
      Expected(i) ==
        LET at == signed(log[i].body).n + 1
            reflen == unsigned(SliceFrom(log[i].body, at))
        IN  Sums(log[i].body, at + reflen.n, at + reflen.n + WVal(reflen.v), Base(i))
  IN  \A i \in 1..Len(log) :
        (HasRefs(i) /\ log[i].data.info = None) =>
          log[i].data.data[1].refs = Expected(i)

\* Two ways in a row: deltas (+10, -3) give 10 and 7, then (+2, +5) give 9
\* and 14.
C14_WayReferencesWitness ==
  /\ Len(log) = 2 /\ IsRecord(1) /\ IsRecord(2)
  /\ log[1].data.type = "Way" /\ log[1].data.data = Some([refs |-> <<WNat(10), WNat(7)>>])
  /\ log[2].data.type = "Way" /\ log[2].data.data = Some([refs |-> <<WNat(9), WNat(14)>>])

\* C15 as claimed: a node, way or relation whose version is zero is emitted
\* with info None, data None and no tags, whatever follows the version.
C15_VersionZeroEndsBody ==
  \A i \in 1..Len(log) :
    LET at == signed(log[i].body).n IN
    (IsElementRecord(i) /\ Len(log[i].body) > at /\ log[i].body[at + 1] = 0) =>
      /\ log[i].data.info = None
      /\ log[i].data.data = None
      /\ log[i].data.tags = EmptyTags

\* C15, amended: a node, way or relation whose version is zero is emitted
\* with info None; it has data None and no tags when its body ends with the
\* version, and else its data are decoded from the bytes after the version:
\* for a node, the two coordinate deltas taken against the previous node.
C15_VersionZeroEndsInfo ==
  \A i \in 1..Len(log) :
    LET at == signed(log[i].body).n
        lon == signed(SliceFrom(log[i].body, at + 1))
        lat == signed(SliceFrom(log[i].body, at + 1 + lon.n))
        before == prev_data_of(log[i].prev, "Node")
    IN
    (IsElementRecord(i) /\ Len(log[i].body) > at /\ log[i].body[at + 1] = 0) =>
      /\ log[i].data.info = None
      /\ Len(log[i].body) = at + 1 =>
           (log[i].data.data = None /\ log[i].data.tags = EmptyTags)
      /\ Len(log[i].body) > at + 1 => log[i].data.data # None
      /\ (Len(log[i].body) > at + 1 /\ log[i].data.type = "Node") =>
           log[i].data.data =
             Some([longitude |-> AsI32(WAdd(lon.v, IF before = None THEN W0
                                                   ELSE before[1].longitude)),
                   latitude |-> AsI32(WAdd(lat.v, IF before = None THEN W0
                                                  ELSE before[1].latitude))])

\* The second of two nodes of version 0 with coordinate deltas (+1, +1) is
\* at (2, 2).
C15_VersionZeroWitness ==
  /\ Len(log) = 2 /\ IsElementRecord(2)
  /\ log[2].data.type = "Node" /\ log[2].data.info = None
  /\ log[2].data.data = Some([longitude |-> WNat(2), latitude |-> WNat(2)])

\* C16: the step on the last byte of a length prefix enters State::Data with
\* len the value that unsigned returns for the bytes of the prefix, an empty
\* chunk and size 0; and a length prefix starts with len = 0 and npow = 1.
C16_LengthIsUnsigned ==
  /\ [][(At("Len") /\ buffer[index + 1] < 128) =>
          /\ state' = "Data" /\ chunk' = <<>> /\ size' = 0
          /\ prefix' = Append(prefix, buffer[index + 1])
          /\ unsigned(prefix') = Ok(Len(prefix'), len')]_vars
  /\ []((state = "Len" /\ prefix = <<>>) => (len = W0 /\ npow = W1))

\* C16 for length prefixes of at most nine bytes, where it is met.
C16_LengthIsUnsignedUpToNine ==
  /\ [][(At("Len") /\ buffer[index + 1] < 128 /\ Len(prefix) < 9) =>
          /\ state' = "Data" /\ chunk' = <<>> /\ size' = 0
          /\ prefix' = Append(prefix, buffer[index + 1])
          /\ unsigned(prefix') = Ok(Len(prefix'), len')]_vars
  /\ []((state = "Len" /\ prefix = <<>>) => (len = W0 /\ npow = W1))

\* C17: the id of every member of an emitted relation of version 0 is the
\* member's signed delta plus one base, the same for all members of the
\* relation: the id of the last member of the relation emitted immediately
\* before it, or 0 when what precedes is not a relation with members.
C17_MemberIds ==
  LET RECURSIVE Ids(_, _, _, _)
      Ids(buf, offset, ref_end, base) ==
        IF offset >= ref_end THEN <<>>
        ELSE LET r == signed(SliceFrom(buf, offset))
                 sel == unsigned(SliceFrom(buf, offset + r.n))
                 str == offset + r.n + sel.n
             IN  <<WAdd(r.v, base)>>
                   \o Ids(buf, IF sel.v = W0 THEN NulPos(buf, str) + 1 ELSE str,
                          ref_end, base)
      HasMembers(i) ==
        /\ IsRecord(i) /\ log[i].data.type = "Relation" /\ log[i].data.data # None
      Members(i) == log[i].data.data[1].members
      Base(i) ==
        IF i > 1 /\ HasMembers(i - 1) /\ Members(i - 1) # <<>>
        THEN Members(i - 1)[Len(Members(i - 1))].id
        ELSE W0
      Expected(i) ==
        LET at == signed(log[i].body).n + 1
            reflen == unsigned(SliceFrom(log[i].body, at))
        IN  Ids(log[i].body, at + reflen.n, at + reflen.n + WVal(reflen.v), Base(i))
  IN  \A i \in 1..Len(log) :
        (HasMembers(i) /\ log[i].data.info = None) =>
          [k \in 1..Len(Members(i)) |-> Members(i)[k].id] = Expected(i)

\* Two relations in a row: deltas (+4, +2) give the ids 4 and 2, then
\* (+1, +1) give 3 and 3.
C17_MemberIdsWitness ==
  /\ Len(log) = 2 /\ IsRecord(1) /\ IsRecord(2)
  /\ log[1].data.type = "Relation" /\ log[2].data.type = "Relation"
  /\ log[1].data.data # None /\ log[2].data.data # None
  /\ [k \in 1..2 |-> log[1].data.data[1].members[k].id] = <<WNat(4), WNat(2)>>
  /\ [k \in 1..2 |-> log[2].data.data[1].members[k].id] = <<WNat(3), WNat(3)>>

\* C18: when the body of a node, way or relation is complete, its version is
\* not zero and its timestamp delta plus the timestamp of the latest record
\* of the same type since the last reset (0 without one) is zero, the step
\* emits the record with the version alone in its metadata; the bytes behind
\* the timestamp are its data, and without an inline string among them the
\* string table is as it was.
C18_TimestampZero ==
  [][LET left == WSub(len, WNat(size))
         body == chunk \o Slice(buffer, index, index + WVal(left))
         r_id == signed(body)
         r_ver == unsigned(SliceFrom(body, r_id.n))
         r_ts == signed(SliceFrom(body, r_id.n + r_ver.n))
         o3 == r_id.n + r_ver.n + r_ts.n
         earlier == {j \in 1..Len(log) :
                       /\ IsElementRecord(j) /\ Some(log[j].data.type) = data_type
                       /\ \A k \in (j + 1)..Len(log) : log[k].ev # "reset"}
         before == IF earlier = {} THEN None ELSE log[Max(earlier)].data.info
         base == IF before = None \/ before[1].timestamp = None
                 THEN W0 ELSE before[1].timestamp[1]
     IN  (/\ At("Data") /\ data_type \in {Some("Node"), Some("Way"), Some("Relation")}
          /\ WLtU(WNat(size), len) /\ WIsSmall(left)
          /\ WVal(left) <= buffer_len - index
          /\ r_id.tag = "Ok" /\ r_id.n < Len(body)
          /\ r_ver.tag = "Ok" /\ r_ver.v # W0 /\ r_id.n + r_ver.n < Len(body)
          /\ r_ts.tag = "Ok" /\ WAdd(r_ts.v, base) = W0) =>
           /\ Len(out') = Len(out) + 1
           /\ out'[Len(out')].tag = "Ok"
           /\ out'[Len(out')].v.info = Some([InfoNew EXCEPT !.version = Some(r_ver.v)])
           /\ (out'[Len(out')].v.data = None) <=> (o3 = Len(body))
           /\ (\A k \in (o3 + 1)..Len(body) : body[k] # 0) => strings' = strings]_vars

\* C18 with the timestamp delta taken against the record in prev, of whatever
\* type it is.
C18_TimestampZeroAgainstPrev ==
  [][LET left == WSub(len, WNat(size))
         body == chunk \o Slice(buffer, index, index + WVal(left))
         r_id == signed(body)
         r_ver == unsigned(SliceFrom(body, r_id.n))
         r_ts == signed(SliceFrom(body, r_id.n + r_ver.n))
         o3 == r_id.n + r_ver.n + r_ts.n
         before == prev_info_of(prev)
         base == IF before = None \/ before[1].timestamp = None
                 THEN W0 ELSE before[1].timestamp[1]
     IN  (/\ At("Data") /\ data_type \in {Some("Node"), Some("Way"), Some("Relation")}
          /\ WLtU(WNat(size), len) /\ WIsSmall(left)
          /\ WVal(left) <= buffer_len - index
          /\ r_id.tag = "Ok" /\ r_id.n < Len(body)
          /\ r_ver.tag = "Ok" /\ r_ver.v # W0 /\ r_id.n + r_ver.n < Len(body)
          /\ r_ts.tag = "Ok" /\ WAdd(r_ts.v, base) = W0) =>
           /\ Len(out') = Len(out) + 1
           /\ out'[Len(out')].tag = "Ok"
           /\ out'[Len(out')].v.info = Some([InfoNew EXCEPT !.version = Some(r_ver.v)])
           /\ (out'[Len(out')].v.data = None) <=> (o3 = Len(body))
           /\ (\A k \in (o3 + 1)..Len(body) : body[k] # 0) => strings' = strings]_vars

\* C19: the framer is never in State::End: its state is Begin, Type, Len or
\* Data, and a step either leaves the state as it is or goes from Begin to
\* Type, from Type to Len, from Len to Data or from Data to Type.
C19_EndUnreachable ==
  /\ [](state \in {"Begin", "Type", "Len", "Data"})
  /\ [][state' # state =>
          <<state, state'>> \in {<<"Begin", "Type">>, <<"Type", "Len">>,
                                 <<"Len", "Data">>, <<"Data", "Type">>}]_vars

\* The end marker 0xfe behind a node has been taken for the type byte of a
\* frame of unknown type: the framer waits for its length.
C19_EndMarkerWitness ==
  /\ Len(input) > 1 /\ input[Len(input)] = 254
  /\ reader = <<>> /\ index = buffer_len
  /\ Len(out) = 1 /\ out[1].tag = "Ok"
  /\ state = "Len" /\ data_type = None /\ prefix = <<>>

\* C20: the cursor is within the buffer, size is at most len and the chunk
\* holds size bytes; and a step of State::Data that reaches the rewind
\* `index = j - 1` (the body is still incomplete, or it is complete and its
\* frame carries no record) has j >= 1.
C20_FramerInvariant ==
  /\ [](index <= buffer_len /\ ~WLtU(len, WNat(size)) /\ Len(chunk) = size)
  /\ [][LET left == WSub(len, WNat(size))
            complete == WIsSmall(left) /\ WVal(left) <= buffer_len - index
            j == IF complete THEN index + WVal(left) ELSE buffer_len
        IN  (/\ At("Data") /\ ~WLtU(len, WNat(size))
             /\ \/ ~complete
                \/ data_type \in {Some("Header"), Some("Sync"), Some("Jump"), None}) =>
              j >= 1]_vars

\* The state part of C20 alone.
C20_CursorAndSize ==
  index <= buffer_len /\ ~WLtU(len, WNat(size)) /\ Len(chunk) = size

\* C21: the step of State::Data that completes the body of a frame ends with
\* flush returning a record, no record or an error: it does not panic on an
\* index or a slice beyond the end of the body.
C21_ParsersStayInBody ==
  [][LET left == WSub(len, WNat(size))
     IN  (/\ At("Data") /\ WLtU(WNat(size), len) /\ WIsSmall(left)
          /\ WVal(left) <= buffer_len - index) =>
           ended' # "panic"]_vars

\* C22: a step of State::Data that yields an error, the first flush of a body
\* or a repeated one, leaves prev and the string table as they were.
C22_ErrorLeavesSession ==
  [][(/\ At("Data") /\ Len(out') = Len(out) + 1
      /\ out'[Len(out')].tag = "Err") =>
       (prev' = prev /\ strings' = strings)]_vars

\* The part of C22 about prev alone.
C22_ErrorLeavesPrev ==
  [][(/\ At("Data") /\ Len(out') = Len(out) + 1
      /\ out'[Len(out')].tag = "Err") =>
       (prev' = prev /\ log' = log)]_vars

(***************************************************************************)
(* SpecVarint: parse::signed and parse::unsigned applied to byte slices    *)
(***************************************************************************)
MaxRun == 11       \* longest run of continuation bytes in a slice

SignedSamples ==
  {W0, W1, WAll, WNat(2), WNeg(WNat(2)), WNat(63), WNeg(WNat(64)), WNat(64),
   WNeg(WNat(65)), WNat(75), WNat(150), WNat(8191), WNeg(WNat(8193)),
   WNat(1000000), WNeg(WNat(1000000)),
   <<65535, 65535, 65535, 16383>>,      \* 2^62 - 1
   <<0, 0, 0, 16384>>,                  \* 2^62
   <<0, 0, 0, 49152>>,                  \* -2^62
   <<65535, 65535, 65535, 49151>>,      \* -2^62 - 1
   WMaxI, WMin}

UnsignedSamples ==
  {W0, W1, WNat(127), WNat(128), WNat(150), WNat(300), WNat(16383), WNat(16384),
   WNat(1000000), WMaxI, WMin, WAll}

TrailingBytes == {<<>>, <<0>>, <<128>>, <<255, 1>>}

Run(k, c) == [i \in 1..k |-> c]

VarintSlices ==
  {EncodeSigned(v) \o t : v \in SignedSamples, t \in TrailingBytes}
    \cup {EncodeUnsigned(v) \o t : v \in UnsignedSamples, t \in TrailingBytes}
    \cup {Run(k, c) \o t : k \in 0..MaxRun, c \in {128, 255}, t \in {<<>>, <<0>>, <<1>>}}

InitVarint ==
  /\ Is(DecoderNew(<<>>, 0))
  /\ input = <<>>
  /\ overflow_checks \in BOOLEAN
  /\ probe \in {[op |-> "input", buf |-> b, res |-> Ok(0, W0)] : b \in VarintSlices}

CallSigned ==
  /\ probe.op = "input"
  /\ probe' = [op |-> "signed", buf |-> probe.buf, res |-> signed(probe.buf)]
  /\ UNCHANGED <<overflow_checks, input, decoder_vars>>

CallUnsigned ==
  /\ probe.op = "input"
  /\ probe' = [op |-> "unsigned", buf |-> probe.buf, res |-> unsigned(probe.buf)]
  /\ UNCHANGED <<overflow_checks, input, decoder_vars>>

NextVarint == CallSigned \/ CallUnsigned

SpecVarint == InitVarint /\ [][NextVarint]_vars

(***************************************************************************)
(* SpecIntern: flush applied to bodies that insert into the interning      *)
(* table or refer to it, at each of the three sites, on tables that are    *)
(* empty, one entry short of full, and full                                *)
(***************************************************************************)
MaxSteps == 2      \* bodies flushed in one session

Fill(n, c) == [i \in 1..n |-> c]

\* The i-th pair decoded before the session: a tag whose key opens with a
\* member type digit, so that every site can refer to it.
Filler(i) == <<<<48 + (i % 3), 1 + (i % 125), 1 + (i \div 125)>>, <<118>>>>
\* The table after n such pairs, the latest first.
Filled(n) == [k \in 1..n |-> Filler(n + 1 - k)]
TableSizes == {0, 15000 - 1, 15000}

Sites == {"author", "tag", "member"}
\* What a body carries at its site: an inline pair of n bytes in all, or a
\* reference with selector k.
Items ==
  {[kind |-> "inline", n |-> n] : n \in {250, 251}}
    \cup {[kind |-> "ref", k |-> k] : k \in {1, 2, 15000, 15000 + 1}}

\* The inline pair of n bytes of a site, as the site keeps it in the table.
InlinePair(site, n) ==
  CASE site = "author" -> <<UI(50), Fill(n - 1, 97)>>
    [] site = "tag" -> <<<<48>> \o Fill(124, 107), Fill(n - 125, 118)>>
    [] site = "member" -> <<<<49>> \o Fill(n - 1, 114), <<>>>>

\* The bytes of an item at its site, selector first.
ItemBytes(site, item) ==
  IF item.kind = "ref" THEN UI(item.k)
  ELSE LET pair == InlinePair(site, item.n)
       IN  CASE site = "author" -> <<0>> \o pair[1] \o <<0>> \o Str(pair[2])
             [] site = "tag" -> <<0>> \o Str(pair[1]) \o Str(pair[2])
             [] site = "member" -> <<0>> \o Str(pair[1])

\* The frame body that carries the bytes x at the site.
SiteBody(site, x) ==
  CASE site = "author" -> SI(1) \o UI(1) \o SI(1) \o SI(1) \o x
    [] site = "tag" -> SI(1) \o UI(0) \o SI(1) \o SI(1) \o x
    [] site = "member" -> SI(1) \o UI(0) \o UI(1 + Len(x)) \o SI(1) \o x

SiteType(site) == IF site = "member" THEN Some("Relation") ELSE Some("Node")

\* The pairs the bodies of the session have given the table, the latest
\* first, however many they are.
Given(before, site, item) ==
  IF item.kind = "inline" /\ item.n <= 250
  THEN <<InlinePair(site, item.n)>> \o before
  ELSE before

InitIntern ==
  /\ overflow_checks \in BOOLEAN
  /\ input = <<>>
  /\ \E n \in TableSizes :
       /\ Is([DecoderNew(<<>>, 0) EXCEPT !.strings = Filled(n)])
       /\ probe = [op |-> "start", steps |-> 0, filled |-> n, given |-> <<>>,
                   after_uncached |-> FALSE]

\* The table and the record of the call after flush has returned r.
Flushed(site, item, r) ==
  /\ strings' = r.strings
  /\ probe' = [op |-> site, item |-> item, res |-> r.res, steps |-> probe.steps + 1,
               filled |-> probe.filled, given |-> Given(probe.given, site, item),
               \* the body flushed before this one carried a pair too long
               \* for the table
               after_uncached |-> /\ probe.op \in Sites /\ probe.item.kind = "inline"
                                  /\ probe.item.n > 250]
  /\ UNCHANGED <<overflow_checks, input, reader, read_errors, buffer, index,
                 buffer_len, state, data_type, len, npow, chunk, size, prev, out,
                 ended, log, prefix>>

\* flush on a body that carries the item at the site.
FlushAt(site, item) ==
  Flushed(site, item,
          flush(SiteType(site), SiteBody(site, ItemBytes(site, item)), None, strings))

FlushAuthor == probe.steps < MaxSteps /\ \E item \in Items : FlushAt("author", item)
FlushTag == probe.steps < MaxSteps /\ \E item \in Items : FlushAt("tag", item)
FlushMember == probe.steps < MaxSteps /\ \E item \in Items : FlushAt("member", item)

NextIntern == FlushAuthor \/ FlushTag \/ FlushMember

SpecIntern == InitIntern /\ [][NextIntern]_vars

(***************************************************************************)
(* Properties of the interning table (SpecIntern)                          *)
(***************************************************************************)
\* Every eligible pair ever inserted, the latest first.
History == probe.given \o Filled(probe.filled)
\* The first 15,000 of a sequence.
Latest(pairs) == SubSeq(pairs, 1, Min(15000, Len(pairs)))

\* C6: after insertions from any of the three sites the table holds at most
\* 15,000 entries, and they are the latest eligible insertions in order: the
\* 15,001st insertion evicts the oldest entry and no other.
C6_TableIsLatestInsertions ==
  Len(strings) <= 15000 /\ strings = Latest(History)

\* Two pairs, the second at the member site, have been inserted into a full
\* table: the two oldest entries are gone, the third oldest is the last.
C6_EvictionWitness ==
  /\ probe.filled = 15000 /\ Len(probe.given) = 2
  /\ probe.op = "member" /\ probe.item.kind = "inline"
  /\ Len(strings) = 15000
  /\ strings[1] = InlinePair("member", 250)
  /\ strings[15000] = Filler(3)

\* A step that flushes a body with an inline pair.
InlineStep == probe' # probe /\ probe'.op \in Sites /\ probe'.item.kind = "inline"

\* An inline pair of at most 250 bytes is inserted, a longer one leaves the
\* table as it is.
Eligibility ==
  InlineStep =>
    IF probe'.item.n <= 250
    THEN strings' = Latest(<<InlinePair(probe'.op, probe'.item.n)>> \o strings)
    ELSE strings' = strings

\* A body with a reference has been flushed right after one with a pair too
\* long for the table.
ReferenceAfterUncached ==
  probe.op \in Sites /\ probe.item.kind = "ref" /\ probe.after_uncached

\* The result of flush is the record the site gives when its reference
\* resolves to the pair.
Resolves(site, res, pair) ==
  /\ res.tag = "Ok" /\ res.v # None
  /\ CASE site = "author" ->
            /\ res.v[1].info # None
            /\ res.v[1].info[1].uid = Some(unsigned(pair[1]).v)
            /\ res.v[1].info[1].user = Some(pair[2])
       [] site = "tag" -> res.v[1].tags = TagsInsert(EmptyTags, pair[1], pair[2])
       [] site = "member" ->
            /\ Len(res.v[1].data[1].members) = 1
            /\ res.v[1].data[1].members[1].role = SliceFrom(pair[1], 1)
            /\ res.v[1].data[1].members[1].element_type =
                 CASE pair[1][1] = 48 -> "Node"
                   [] pair[1][1] = 49 -> "Way"
                   [] OTHER -> "Relation"

\* C7 as stated: at every site a pair of at most 250 bytes is inserted and one
\* of 251 bytes or more is not; the reference that would select the pair had
\* it been inserted (selector 1, right after it) fails with StringUnavailable.
C7_UncachedReferenceFails ==
  /\ [][Eligibility]_vars
  /\ []((ReferenceAfterUncached /\ probe.item.k = 1) =>
          probe.res = StringUnavailable(W1))

\* C7 as amended: the same cutoff; a reference that follows the uncached pair
\* fails with StringUnavailable exactly when its selector exceeds the number
\* of entries of the table, and otherwise resolves to the entry the table held
\* at that place before the pair.
C7_UncachedLeavesTable ==
  /\ [][Eligibility]_vars
  /\ [](ReferenceAfterUncached =>
          IF probe.item.k > Len(strings)
          THEN probe.res = StringUnavailable(WNat(probe.item.k))
          ELSE Resolves(probe.op, probe.res, strings[probe.item.k]))

\* After a tag of 251 bytes on an empty table, selector 1 at the member site
\* has failed with StringUnavailable.
C7_UncachedWitness ==
  /\ ReferenceAfterUncached /\ probe.op = "member" /\ probe.item.k = 1
  /\ probe.filled = 0 /\ strings = <<>>
  /\ probe.res = StringUnavailable(W1)

\* C8: a reference with selector k, at any site, resolves to the k-th latest
\* insertion among the live entries of the one table, whichever site inserted
\* it, and fails with StringUnavailable carrying k when k exceeds the number
\* of live entries.
C8_ReferenceResolves ==
  (probe.op \in Sites /\ probe.item.kind = "ref") =>
    IF probe.item.k <= Len(Latest(History))
    THEN Resolves(probe.op, probe.res, History[probe.item.k])
    ELSE probe.res = StringUnavailable(WNat(probe.item.k))

\* Selector 1 at the tag site has resolved to the pair the member site
\* inserted just before.
C8_SharedTableWitness ==
  /\ probe.op = "tag" /\ probe.item.kind = "ref" /\ probe.item.k = 1
  /\ probe.given = <<InlinePair("member", 250)>>
  /\ probe.res.tag = "Ok"
  /\ probe.res.v[1].tags = TagsInsert(EmptyTags, <<49>> \o Fill(249, 114), <<>>)

(***************************************************************************)
(* Properties of the varint decoders (SpecVarint)                          *)
(***************************************************************************)
\* C9: signed is the inverse of zigzag followed by the base-128 encoding, for
\* every 64-bit value: it returns the length of the encoding and the value.
C9_SignedInvertsZigzag ==
  \A v \in SignedSamples :
    (probe.op = "signed" /\ probe.buf = EncodeSigned(v)) =>
      probe.res = Ok(Len(probe.buf), v)

\* C9 for the values whose zigzag code has bit 63 clear, where the claim is met.
C9_SignedInvertsZigzagBelowBit63 ==
  \A v \in SignedSamples :
    (probe.op = "signed" /\ probe.buf = EncodeSigned(v) /\ ~WIsNeg(Zigzag(v))) =>
      probe.res = Ok(Len(probe.buf), v)

\* C10: unsigned returns (len(e), v) on a slice that starts with the encoding e
\* of v, whatever follows e, and fails with the unterminated-unsigned-integer
\* error on a slice with no byte below 0x80.
C10_UnsignedDecodes ==
  /\ \A v \in UnsignedSamples, t \in TrailingBytes :
       (probe.op = "unsigned" /\ probe.buf = EncodeUnsigned(v) \o t) =>
         probe.res = Ok(Len(EncodeUnsigned(v)), v)
  /\ (probe.op = "unsigned" /\ \A i \in 1..Len(probe.buf) : probe.buf[i] >= 128) =>
       probe.res = Err([kind |-> "UnterminatedUnsignedInteger"])

\* C10 on slices of at most ten bytes without a terminator, where it is met.
C10_UnsignedDecodesUpToTen ==
  /\ \A v \in UnsignedSamples, t \in TrailingBytes :
       (probe.op = "unsigned" /\ probe.buf = EncodeUnsigned(v) \o t) =>
         probe.res = Ok(Len(EncodeUnsigned(v)), v)
  /\ (/\ probe.op = "unsigned" /\ Len(probe.buf) <= 10
      /\ \A i \in 1..Len(probe.buf) : probe.buf[i] >= 128) =>
       probe.res = Err([kind |-> "UnterminatedUnsignedInteger"])

====
